---- MODULE Spec2Model ----
(***************************************************************************)
(* The CBT journaling session of client/src/components/CBTJournal.tsx:     *)
(* the four-step dialog, its react-hook-form state, the classifier call    *)
(* made on leaving the THOUGHT step and the createJournalMutation that     *)
(* posts the finished record.                                              *)
(*                                                                         *)
(* handleNextStep is an async function.  Every click starts one run of it; *)
(* a run captures the currentStep of the render it was created in and is   *)
(* suspended at its two awaits (form.trigger, getCBTAnalysis).  Other      *)
(* events of the component may be handled while a run is suspended, so a   *)
(* run is a small process: `handlers` holds the suspended runs.            *)
(*                                                                         *)
(* The server side is the journal store of server/storage.ts (MemStorage), *)
(* the journal routes and the classifier route with generateCBTResponse.   *)
(* Spec, SpecSync and FairSpec are the component, its server answering as  *)
(* it may; SpecStore is the server, requested by any client; SpecJournal   *)
(* is the component posting its records to the server.  SpecList is the    *)
(* journal store as time passes, with the lists of a user's entries;       *)
(* SpecAccounts and SpecPatches are the server with handlers that overlap; *)
(* SpecProcess is the server from the start of its process.                *)
(***************************************************************************)
EXTENDS Integers, Sequences, FiniteSets, Bags, TLC

VARIABLES
    isJournalOpen,   \* useState(false)
    currentStep,     \* useState(0)
    isAnalyzing,     \* useState(false)
    aiAnalysis,      \* useState<CBTAnalysisResponse | null>(null)
    form,            \* react-hook-form values of the five fields
    formErrors,      \* react-hook-form formState.errors: the fields in error
    handlers,        \* bag of suspended runs of handleNextStep
    mutations,       \* bag of POST /api/journal calls that have not settled
    toast,           \* title of the toast the last event raised, or "none"
    classified       \* a classifier call was started since the last resetForm

\* The server: MemStorage (server/storage.ts), the clock its records are
\* stamped with, and the HTTP traffic of the journal and classifier routes.
VARIABLES
    journalEntries,    \* MemStorage.journalEntries: Map<number, JournalEntry>
    journalIdCounter,  \* MemStorage.journalIdCounter
    now,               \* the server's clock, as new Date() reads it; it
                       \* advances where the time of creation matters
                       \* (SpecList)
    posted,            \* bag of bodies of the POST /api/journal requests of
                       \* the component that the server has not yet handled
    response           \* the answer to the last request handled

\* The accounts of MemStorage, the handlers of the server that are
\* suspended at an await, and the start of the server process.
VARIABLES
    users,             \* MemStorage.users: Map<number, User>
    userIdCounter,     \* MemStorage.userIdCounter
    requests,          \* bag of the handlers of POST /api/users and of
                       \* PATCH /api/journal/:id suspended at an await
    OPENAI_API_KEY,    \* process.env.OPENAI_API_KEY is set
    process,           \* "loading" its modules, "loaded", "listening",
                       \* or "failed" by an error thrown at module load
    routes             \* the routes registered on the Express app

component == <<isJournalOpen, currentStep, isAnalyzing, aiAnalysis, form,
               formErrors, handlers, mutations, toast, classified>>

accounts == <<users, userIdCounter, requests>>

startup == <<OPENAI_API_KEY, process, routes>>

server == <<journalEntries, journalIdCounter, now, posted, response,
            accounts, startup>>

vars == <<component, server>>

----------------------------------------------------------------------------
(* Bounds of the model *)

\* asynchronous operations of the component that may be in progress at the
\* same time: suspended runs of handleNextStep plus outstanding
\* POST /api/journal calls
MaxPending == 2

\* journal entries the store takes: createJournalEntry is not called once
\* journalIdCounter has passed MaxEntries
MaxEntries == 2

\* journal entries the store takes where the lists of entries are read
MaxListed == 3

\* the last reading of the server's clock, the first being 0
MaxTime == 2

\* users the store takes
MaxUsers == 2

\* handlers of the server that may be suspended at the same time
MaxRequests == 2

----------------------------------------------------------------------------
(* Values *)

Null == [null |-> TRUE]

Fields == {"situation", "emotion", "thought", "challenge", "reframe"}

\* useForm defaultValues
defaultValues ==
    [situation |-> "", emotion |-> "", thought |-> "",
     challenge |-> "", reframe |-> ""]

\* What the user may type into a field: nothing, a text that is too short,
\* a text that is long enough.
SituationTexts == {"", "boss", "My boss called me"}
EmotionTexts   == {"", "a", "anxious"}
ThoughtTexts   == {"", "fail", "I will fail"}
ChallengeTexts == {"", "Is that certain?"}
ReframeTexts   == {"", "I can prepare"}

\* The diagnoses POST /api/cbt/analyze may answer with.
Diagnoses ==
    { [thoughtPattern |-> "Catastrophizing",
       patternExplanation |-> "Assumes the worst outcome",
       challenge |-> "What is the evidence?",
       reframe |-> "One talk does not define me"] }

\* The routes of registerRoutes that are modelled here.
JournalRoutes ==
    {"GET /api/journal", "GET /api/journal/:id", "POST /api/journal",
     "PATCH /api/journal/:id"}

Routes == JournalRoutes \cup {"POST /api/users", "POST /api/cbt/analyze"}

----------------------------------------------------------------------------
(* cbtFormSchema and the per-step field lists *)

\* cbtFormSchema with the minimum of `thought` left out.
MinLength_ThoughtUnchecked(field) ==
    CASE field = "situation" -> 5
      [] field = "emotion"   -> 2
      [] OTHER               -> 0

\* z.string().min(n): the minimum length of each field; optional fields
\* accept every string.
MinLength(field) ==
    CASE field = "situation" -> 5
      [] field = "emotion"   -> 2
      [] field = "thought"   -> 5
      [] OTHER               -> 0

\* The fields of `values` that cbtFormSchema rejects.
SchemaErrors(values) ==
    { f \in Fields : Len(values[f]) < MinLength(f) }

\* currentStepFields[step]; a step outside 0..3 has no entry, and
\* form.trigger(undefined) validates every field.
currentStepFields(step) ==
    CASE step = 0 -> {"situation"}
      [] step = 1 -> {"emotion"}
      [] step = 2 -> {"thought"}
      [] step = 3 -> {"challenge", "reframe"}
      [] OTHER    -> Fields

----------------------------------------------------------------------------
(* Helpers on the bags of suspended runs and outstanding calls *)

One(x) == SetToBag({x})

\* createJournalMutation.isPending: the call started by the latest mutate()
\* has not settled.
isPending == \E m \in BagToSet(mutations) : m.latest

\* A run of handleNextStep suspended at `await getCBTAnalysis(...)` is one
\* outstanding classification call.
ClassifierCalls == { h \in BagToSet(handlers) : h.pc = "analyze" }

OutstandingClassifications ==
    BagCardinality([h \in ClassifierCalls |-> CopiesIn(h, handlers)])

OutstandingSubmissions == BagCardinality(mutations)

Pending == BagCardinality(handlers) + BagCardinality(mutations)

\* The call a new mutate() starts replaces the one the mutation observer
\* follows; the earlier calls go on and still run onSuccess / onError.
Superseded(m) == [m EXCEPT !.latest = FALSE]

\* resetForm does not cancel the runs and calls in progress; from then on
\* they belong to a session that has been discarded.
Abandon(c) == [c EXCEPT !.abandoned = TRUE]


----------------------------------------------------------------------------
(* Initial state: the component after its first render *)

Init ==
    /\ isJournalOpen = FALSE
    /\ currentStep = 0
    /\ isAnalyzing = FALSE
    /\ aiAnalysis = Null
    /\ form = defaultValues
    /\ formErrors = {}
    /\ handlers = EmptyBag
    /\ mutations = EmptyBag
    /\ toast = "none"
    /\ classified = FALSE
    /\ journalEntries = <<>>
    /\ journalIdCounter = 1
    /\ now = 0
    /\ posted = EmptyBag
    /\ response = [status |-> 0, body |-> [message |-> ""], calls |-> 0]
    /\ users = <<>>
    /\ userIdCounter = 1
    /\ requests = EmptyBag
    /\ OPENAI_API_KEY = TRUE
    /\ process = "listening"
    /\ routes = Routes

\* The server process as it is started, before it has loaded its modules,
\* with OPENAI_API_KEY set or not; the component as in Init.
InitProcess ==
    /\ isJournalOpen = FALSE
    /\ currentStep = 0
    /\ isAnalyzing = FALSE
    /\ aiAnalysis = Null
    /\ form = defaultValues
    /\ formErrors = {}
    /\ handlers = EmptyBag
    /\ mutations = EmptyBag
    /\ toast = "none"
    /\ classified = FALSE
    /\ journalEntries = <<>>
    /\ journalIdCounter = 1
    /\ now = 0
    /\ posted = EmptyBag
    /\ response = [status |-> 0, body |-> [message |-> ""], calls |-> 0]
    /\ users = <<>>
    /\ userIdCounter = 1
    /\ requests = EmptyBag
    /\ OPENAI_API_KEY \in BOOLEAN
    /\ process = "loading"
    /\ routes = {}

----------------------------------------------------------------------------
(* Operations of the component *)

\* resetForm: form.reset(); setCurrentStep(0); setAiAnalysis(null);
\* setIsJournalOpen(false).  isAnalyzing is not reset.
resetForm ==
    /\ form' = defaultValues
    /\ formErrors' = {}
    /\ currentStep' = 0
    /\ aiAnalysis' = Null
    /\ isJournalOpen' = FALSE
    /\ classified' = FALSE

\* Card onClick: setIsJournalOpen(true)
OpenJournal ==
    /\ ~isJournalOpen
    /\ toast' = "none"
    /\ isJournalOpen' = TRUE
    /\ UNCHANGED <<currentStep, isAnalyzing, aiAnalysis, form, formErrors,
                   handlers, mutations, classified>>

\* Dialog onOpenChange(false): resetForm()
DialogDismiss ==
    /\ isJournalOpen
    /\ toast' = "none"
    /\ resetForm
    /\ handlers' = BagOfAll(Abandon, handlers)
    /\ mutations' = BagOfAll(Abandon, mutations)
    /\ UNCHANGED isAnalyzing

\* The texts the user may enter into `field`.
Texts(field) ==
    CASE field = "situation" -> SituationTexts
      [] field = "emotion"   -> EmotionTexts
      [] field = "thought"   -> ThoughtTexts
      [] field = "challenge" -> ChallengeTexts
      [] OTHER               -> ReframeTexts

\* The form fields the current render shows: one field per step, the two
\* tabs of step 3 unless "Analyzing your thoughts..." is shown instead.
RenderedFields ==
    IF ~isJournalOpen THEN {}
    ELSE IF currentStep \in 0..2 THEN currentStepFields(currentStep)
    ELSE IF currentStep = 3 /\ ~isAnalyzing THEN {"challenge", "reframe"}
    ELSE {}

\* The user edits a rendered field (field.onChange).
FieldChange ==
    \E f \in RenderedFields : \E t \in Texts(f) :
        /\ form[f] # t
        /\ form' = [form EXCEPT ![f] = t]
        /\ toast' = "none"
        /\ UNCHANGED <<isJournalOpen, currentStep, isAnalyzing, aiAnalysis,
                       formErrors, handlers, mutations, classified>>

\* handlePreviousStep going back to the first step instead of one step.
handlePreviousStep_ToFirstStep ==
    /\ isJournalOpen
    /\ ~(currentStep = 0 \/ isAnalyzing)
    /\ toast' = "none"
    /\ currentStep' = 0
    /\ UNCHANGED <<isJournalOpen, isAnalyzing, aiAnalysis, form, formErrors,
                   handlers, mutations, classified>>

\* handlePreviousStep: setCurrentStep(prev => Math.max(0, prev - 1)).
\* The Back button is disabled when currentStep === 0 || isAnalyzing.
handlePreviousStep ==
    /\ isJournalOpen
    /\ ~(currentStep = 0 \/ isAnalyzing)
    /\ toast' = "none"
    /\ currentStep' = (IF currentStep - 1 > 0 THEN currentStep - 1 ELSE 0)
    /\ UNCHANGED <<isJournalOpen, isAnalyzing, aiAnalysis, form, formErrors,
                   handlers, mutations, classified>>

\* onSubmit(values): createJournalMutation.mutate(values)
onSubmit(values) ==
    mutations' = BagOfAll(Superseded, mutations)
                   (+) One([latest |-> TRUE, abandoned |-> FALSE])

\* The Next button is disabled when isAnalyzing || isPending.
NextEnabled == isJournalOpen /\ ~isAnalyzing /\ ~isPending

\* The run of handleNextStep a click creates.  It keeps the currentStep of
\* the render it was created in; the resolver reads the form values when
\* form.trigger is called, so the fields it will report are fixed here.
NewRun ==
    [step |-> currentStep,
     bad |-> SchemaErrors(form) \cap currentStepFields(currentStep),
     pc |-> "trigger",
     abandoned |-> FALSE]

\* form.trigger(names) settles: the errors of the named fields are replaced
\* by the resolver's verdict on them.
TriggerErrors(h) == (formErrors \ currentStepFields(h.step)) \cup h.bad

\* handleNextStep, from the return of form.trigger to the next await or to
\* the end of the function; `rest` are the other suspended runs.
handleNextStep_Resume(h, rest) ==
    /\ toast' = "none"
    /\ formErrors' = TriggerErrors(h)
    /\ IF h.bad # {}
       THEN \* if (!isValid) return;
            /\ handlers' = rest
            /\ UNCHANGED <<isJournalOpen, currentStep, isAnalyzing, aiAnalysis,
                           form, mutations, classified>>
       ELSE IF h.step = 2
       THEN \* setIsAnalyzing(true); await getCBTAnalysis(...)
            /\ isAnalyzing' = TRUE
            /\ classified' = TRUE
            /\ handlers' = rest (+) One([h EXCEPT !.pc = "analyze"])
            /\ UNCHANGED <<isJournalOpen, currentStep, aiAnalysis, form,
                           mutations>>
       ELSE IF h.step < 3
       THEN \* setCurrentStep((prev) => prev + 1)
            /\ currentStep' = currentStep + 1
            /\ handlers' = rest
            /\ UNCHANGED <<isJournalOpen, isAnalyzing, aiAnalysis, form,
                           mutations, classified>>
       ELSE \* onSubmit(form.getValues())
            /\ onSubmit(form)
            /\ handlers' = rest
            /\ UNCHANGED <<isJournalOpen, currentStep, isAnalyzing, aiAnalysis,
                           form, classified>>

\* A click on Next, the await of form.trigger being a point at which other
\* events of the component may be handled.
handleNextStep_Click ==
    /\ NextEnabled
    /\ Pending < MaxPending
    /\ toast' = "none"
    /\ handlers' = handlers (+) One(NewRun)
    /\ UNCHANGED <<isJournalOpen, currentStep, isAnalyzing, aiAnalysis, form,
                   formErrors, mutations, classified>>

handleNextStep_AfterTrigger(h) ==
    /\ h.pc = "trigger"
    /\ BagIn(h, handlers)
    /\ handleNextStep_Resume(h, handlers (-) One(h))

\* A click on Next, form.trigger settling before any other event is
\* handled: the resolver needs no I/O, so its promise is settled by the
\* time the click's task ends.
handleNextStep_Sync ==
    /\ NextEnabled
    /\ Pending < MaxPending
    /\ handleNextStep_Resume(NewRun, handlers)

\* handleNextStep filling in the challenge and leaving the reframe out.
handleNextStep_AnalysisOk_ChallengeOnly(h, analysis) ==
    /\ h.pc = "analyze"
    /\ BagIn(h, handlers)
    /\ toast' = "none"
    /\ aiAnalysis' = analysis
    /\ form' = [form EXCEPT !.challenge = analysis.challenge]
    /\ isAnalyzing' = FALSE
    /\ currentStep' = currentStep + 1
    /\ handlers' = handlers (-) One(h)
    /\ UNCHANGED <<isJournalOpen, formErrors, mutations, classified>>

\* handleNextStep, from the fulfilment of getCBTAnalysis to the end:
\* setAiAnalysis(analysis); form.setValue("challenge" / "reframe", ...);
\* finally setIsAnalyzing(false); then, the captured step being 2,
\* setCurrentStep((prev) => prev + 1).
handleNextStep_AnalysisOk(h, analysis) ==
    /\ h.pc = "analyze"
    /\ BagIn(h, handlers)
    /\ toast' = "none"
    /\ aiAnalysis' = analysis
    /\ form' = [form EXCEPT !.challenge = analysis.challenge,
                            !.reframe = analysis.reframe]
    /\ isAnalyzing' = FALSE
    /\ currentStep' = currentStep + 1
    /\ handlers' = handlers (-) One(h)
    /\ UNCHANGED <<isJournalOpen, formErrors, mutations, classified>>

\* handleNextStep, from the rejection of getCBTAnalysis to the end: the
\* "Analysis failed" toast; finally setIsAnalyzing(false); then
\* setCurrentStep((prev) => prev + 1).
handleNextStep_AnalysisFailed(h) ==
    /\ h.pc = "analyze"
    /\ BagIn(h, handlers)
    /\ toast' = "Analysis failed"
    /\ isAnalyzing' = FALSE
    /\ currentStep' = currentStep + 1
    /\ handlers' = handlers (-) One(h)
    /\ UNCHANGED <<isJournalOpen, aiAnalysis, form, formErrors, mutations,
                   classified>>

\* <form onSubmit={form.handleSubmit(onSubmit)}>: the submit event of the
\* form element.  Both buttons are type="button"; the event comes from the
\* Enter key in the one <Input> of the form, which step 1 renders.
\* handleSubmit validates the whole schema and calls onSubmit when it passes.
FormSubmit ==
    /\ isJournalOpen
    /\ currentStep = 1
    /\ toast' = "none"
    /\ formErrors' = SchemaErrors(form)
    /\ IF SchemaErrors(form) = {}
       THEN Pending < MaxPending /\ onSubmit(form)
       ELSE UNCHANGED mutations
    /\ UNCHANGED <<isJournalOpen, currentStep, isAnalyzing, aiAnalysis, form,
                   handlers, classified>>

\* createJournalMutation.onSuccess: toast, invalidateQueries, resetForm().
MutationSuccess(m) ==
    /\ BagIn(m, mutations)
    /\ toast' = "Journal entry saved"
    /\ resetForm
    /\ handlers' = BagOfAll(Abandon, handlers)
    /\ mutations' = BagOfAll(Abandon, mutations (-) One(m))
    /\ UNCHANGED isAnalyzing

\* createJournalMutation.onError: toast.
MutationError(m) ==
    /\ BagIn(m, mutations)
    /\ toast' = "Failed to save journal entry"
    /\ mutations' = mutations (-) One(m)
    /\ UNCHANGED <<isJournalOpen, currentStep, isAnalyzing, aiAnalysis, form,
                   formErrors, handlers, classified>>

----------------------------------------------------------------------------
(* The server: values *)

\* JSON values of a request body, by their type.
JsonString(s) == [kind |-> "string", val |-> s]
JsonNumber(n) == [kind |-> "number", val |-> n]

\* Map.set(key, value)
MapSet(map, key, value) ==
    [k \in DOMAIN map \cup {key} |-> IF k = key THEN value ELSE map[k]]

\* res.status(status).json(body); `calls` counts the requests made to the
\* classifier service while the request was handled.
Answer(status, body) == [status |-> status, body |-> body, calls |-> 0]

\* { message: text }
Message(text) == [message |-> text]

\* No request has been handled yet.
NoResponse == Answer(0, Message(""))

\* res.status(400).json({ message: error.errors }) for a ZodError: the
\* message is the list of issues, here the keys the schema rejects.
ZodAnswer(issues) == Answer(400, [message |-> issues, issues |-> TRUE])

\* The :id parameters requests are made with, and Number(req.params.id);
\* -1 stands for NaN, which the routes turn away before they use the id.
IdParams == {"1", "02", "3", "abc"}

Number(param) ==
    CASE param = "1"  -> 1
      [] param = "02" -> 2
      [] param = "3"  -> 3
      [] OTHER        -> -1

\* isNaN(Number(param))
isNaN(param) == param \notin {"1", "02", "3"}

----------------------------------------------------------------------------
(* shared/schema.ts: insertJournalEntrySchema, and the schema of PATCH *)

InsertKeys ==
    {"userId", "situation", "emotion", "thought", "challenge", "reframe"}

\* The kinds of value the insert schema accepts under `key`: the notNull
\* columns are z.number() / z.string(), the others are nullable.
InsertKinds(key) ==
    CASE key = "userId" -> {"number"}
      [] key \in {"situation", "emotion", "thought"} -> {"string"}
      [] OTHER -> {"string", "null"}

\* insertJournalEntrySchema.parse(body): the keys that raise a ZodError, a
\* required key that is missing or a key whose value is of the wrong kind.
insertIssues(body) ==
    { k \in InsertKeys :
        IF k \in DOMAIN body
        THEN body[k].kind \notin InsertKinds(k)
        ELSE k \in {"userId", "situation", "emotion", "thought"} }

\* The value parse returns: the picked keys of the body, the others
\* stripped.
insertParsed(body) == [k \in InsertKeys \cap DOMAIN body |-> body[k].val]

UpdateKeys == {"challenge", "reframe"}

\* z.object({challenge: z.string().optional(),
\*           reframe: z.string().optional()}).parse(body)
updateIssues(body) ==
    { k \in UpdateKeys \cap DOMAIN body : body[k].kind # "string" }

\* The PATCH schema passing the unknown keys through instead of
\* stripping them.
updateParsed_Passthrough(body) == [k \in DOMAIN body |-> body[k].val]

updateParsed(body) == [k \in UpdateKeys \cap DOMAIN body |-> body[k].val]

----------------------------------------------------------------------------
(* server/storage.ts: the journal methods of MemStorage *)

\* The new entry without the optional fields of insertEntry.
NewEntry_RequiredOnly(insertEntry, id) ==
    [k \in (DOMAIN insertEntry \ {"challenge", "reframe"})
              \cup {"id", "createdAt"} |->
        IF k = "id" THEN id
        ELSE IF k = "createdAt" THEN now
        ELSE insertEntry[k]]

\* { ...insertEntry, id, createdAt: new Date() }
NewEntry(insertEntry, id) ==
    [k \in DOMAIN insertEntry \cup {"id", "createdAt"} |->
        IF k = "id" THEN id
        ELSE IF k = "createdAt" THEN now
        ELSE insertEntry[k]]

\* createJournalEntry with the counter read but not advanced.
createJournalEntry_NoIncrement(insertEntry) ==
    /\ journalIdCounter' = journalIdCounter
    /\ journalEntries' =
          MapSet(journalEntries, journalIdCounter,
                 NewEntry(insertEntry, journalIdCounter))

\* createJournalEntry: const id = this.journalIdCounter++;
\* this.journalEntries.set(id, entry)
createJournalEntry(insertEntry) ==
    /\ journalIdCounter' = journalIdCounter + 1
    /\ journalEntries' =
          MapSet(journalEntries, journalIdCounter,
                 NewEntry(insertEntry, journalIdCounter))

\* updateJournalEntry building the entry from the columns the update may
\* not touch and the update alone.
updateJournalEntry_OptionalsReplaced(id, partialEntry) ==
    journalEntries' =
        MapSet(journalEntries, id,
               [k \in (DOMAIN journalEntries[id] \ {"challenge", "reframe"})
                         \cup DOMAIN partialEntry |->
                   IF k \in DOMAIN partialEntry THEN partialEntry[k]
                   ELSE journalEntries[id][k]])

\* { ...existingEntry, ...partialEntry }
Merged(existingEntry, partialEntry) ==
    [k \in DOMAIN existingEntry \cup DOMAIN partialEntry |->
        IF k \in DOMAIN partialEntry THEN partialEntry[k]
        ELSE existingEntry[k]]

\* updateJournalEntry, an entry with this id existing
updateJournalEntry(id, partialEntry) ==
    journalEntries' =
        MapSet(journalEntries, id, Merged(journalEntries[id], partialEntry))

----------------------------------------------------------------------------
(* The journal routes *)

\* The bodies POST /api/journal is requested with.
ValidEntry ==
    [userId |-> JsonNumber(1),
     situation |-> JsonString("My boss called me"),
     emotion |-> JsonString("anxious"),
     thought |-> JsonString("I will fail")]

PostBodies ==
    { ValidEntry,
      MapSet(MapSet(ValidEntry, "challenge", JsonString("Is that certain?")),
             "reframe", JsonString("I can prepare")),
      MapSet(MapSet(ValidEntry, "situation", JsonString("")),
             "emotion", JsonString("a")),
      MapSet(ValidEntry, "thought", JsonNumber(5)),
      [userId |-> JsonNumber(1), situation |-> JsonString("My boss called me")],
      MapSet(MapSet(ValidEntry, "id", JsonNumber(1)),
             "createdAt", JsonNumber(0)) }

\* The handler of POST /api/journal taking the next id before it
\* validates the body.
handleJournalPostWithin_IdFirst(limit, body) ==
    /\ journalIdCounter <= limit
    /\ IF insertIssues(body) # {}
       THEN /\ response' = ZodAnswer(insertIssues(body))
            /\ journalIdCounter' = journalIdCounter + 1
            /\ UNCHANGED journalEntries
       ELSE /\ createJournalEntry(insertParsed(body))
            /\ response' =
                  Answer(201, NewEntry(insertParsed(body), journalIdCounter))

\* The handler of POST /api/journal, on the store and the response, the
\* store taking entries up to the id `limit`.
handleJournalPostWithin(limit, body) ==
    IF insertIssues(body) # {}
    THEN /\ response' = ZodAnswer(insertIssues(body))
         /\ UNCHANGED <<journalEntries, journalIdCounter>>
    ELSE /\ journalIdCounter <= limit
         /\ createJournalEntry(insertParsed(body))
         /\ response' =
               Answer(201, NewEntry(insertParsed(body), journalIdCounter))

handleJournalPost(body) == handleJournalPostWithin(MaxEntries, body)

\* POST /api/journal
journalPost(body) ==
    /\ handleJournalPost(body)
    /\ UNCHANGED <<now, posted, component, accounts, startup>>

\* What GET /api/journal/:id answers in the current state of the store.
JournalEntryAnswer(param) ==
    IF isNaN(param) THEN Answer(400, Message("Invalid entry ID"))
    ELSE IF Number(param) \notin DOMAIN journalEntries
    THEN Answer(404, Message("Journal entry not found"))
    ELSE Answer(200, journalEntries[Number(param)])

\* GET /api/journal/:id stamping the entry it reads with the time of
\* the read.
journalGetById_Touch(param) ==
    /\ response' = JournalEntryAnswer(param)
    /\ journalEntries' =
          IF isNaN(param) \/ Number(param) \notin DOMAIN journalEntries
          THEN journalEntries
          ELSE [journalEntries EXCEPT ![Number(param)].createdAt = now]
    /\ UNCHANGED <<journalIdCounter, now, posted, component, accounts,
                   startup>>

\* GET /api/journal/:id
journalGetById(param) ==
    /\ response' = JournalEntryAnswer(param)
    /\ UNCHANGED <<journalEntries, journalIdCounter, now, posted, component,
                   accounts, startup>>

\* The bodies PATCH /api/journal/:id is requested with.
PatchBodies ==
    { [reframe |-> JsonString("X")],
      [challenge |-> JsonString("Y")],
      [challenge |-> JsonString("Y"), situation |-> JsonString("hacked"),
       id |-> JsonNumber(3), createdAt |-> JsonNumber(2)],
      [challenge |-> JsonNumber(5)] }

\* PATCH /api/journal/:id storing the update under an id it does not find.
journalPatch_Upsert(param, body) ==
    /\ IF isNaN(param)
       THEN /\ response' = Answer(400, Message("Invalid entry ID"))
            /\ UNCHANGED journalEntries
       ELSE IF updateIssues(body) # {}
       THEN /\ response' = ZodAnswer(updateIssues(body))
            /\ UNCHANGED journalEntries
       ELSE IF Number(param) \notin DOMAIN journalEntries
       THEN /\ journalEntries' =
                  MapSet(journalEntries, Number(param), updateParsed(body))
            /\ response' = Answer(404, Message("Journal entry not found"))
       ELSE /\ updateJournalEntry(Number(param), updateParsed(body))
            /\ response' =
                  Answer(200, Merged(journalEntries[Number(param)],
                                     updateParsed(body)))
    /\ UNCHANGED <<journalIdCounter, now, posted, component, accounts,
                   startup>>

\* PATCH /api/journal/:id
journalPatch(param, body) ==
    /\ IF isNaN(param)
       THEN /\ response' = Answer(400, Message("Invalid entry ID"))
            /\ UNCHANGED journalEntries
       ELSE IF updateIssues(body) # {}
       THEN /\ response' = ZodAnswer(updateIssues(body))
            /\ UNCHANGED journalEntries
       ELSE IF Number(param) \notin DOMAIN journalEntries
       THEN /\ response' = Answer(404, Message("Journal entry not found"))
            /\ UNCHANGED journalEntries
       ELSE /\ updateJournalEntry(Number(param), updateParsed(body))
            /\ response' =
                  Answer(200, Merged(journalEntries[Number(param)],
                                     updateParsed(body)))
    /\ UNCHANGED <<journalIdCounter, now, posted, component, accounts,
                   startup>>

----------------------------------------------------------------------------
(* Handlers that overlap: each handler is an async function, and while it *)
(* is suspended at an await the server handles other requests.  A method  *)
(* of MemStorage has no await of its own: it runs to its end when called. *)

UserKeys == {"username", "password", "name", "email"}

\* The kinds of value insertUserSchema accepts under `key`.
UserKinds(key) ==
    CASE key \in {"username", "password"} -> {"string"}
      [] OTHER -> {"string", "null"}

\* insertUserSchema.parse(body): the keys that raise a ZodError.
userIssues(body) ==
    { k \in UserKeys :
        IF k \in DOMAIN body
        THEN body[k].kind \notin UserKinds(k)
        ELSE k \in {"username", "password"} }

userParsed(body) == [k \in UserKeys \cap DOMAIN body |-> body[k].val]

\* MemStorage.getUserByUsername: the first of the users with this
\* username, undefined (Null) when there is none.
getUserByUsername(username) ==
    LET found == { id \in DOMAIN users : users[id].username = username }
    IN  IF found = {} THEN Null
        ELSE users[CHOOSE id \in found : \A other \in found : id <= other]

\* { ...insertUser, id }
NewUser(insertUser, id) ==
    [k \in DOMAIN insertUser \cup {"id"} |->
        IF k = "id" THEN id ELSE insertUser[k]]

\* MemStorage.createUser: const id = this.userIdCounter++;
\* this.users.set(id, user)
createUser(insertUser) ==
    /\ userIdCounter' = userIdCounter + 1
    /\ users' = MapSet(users, userIdCounter, NewUser(insertUser, userIdCounter))

\* The bodies POST /api/users is requested with.
UserBodies ==
    { [username |-> JsonString("alex"), password |-> JsonString("one")],
      [username |-> JsonString("alex"), password |-> JsonString("two")],
      [username |-> JsonString("sam"), password |-> JsonString("one")],
      [username |-> JsonString("alex")] }

\* POST /api/users, from the request to the first await: the body is
\* parsed and getUserByUsername is called, which looks the name up then;
\* the handler is suspended until the promise is delivered.
userPost_Start(body) ==
    /\ IF userIssues(body) # {}
       THEN /\ response' = ZodAnswer(userIssues(body))
            /\ UNCHANGED requests
       ELSE /\ BagCardinality(requests) < MaxRequests
            /\ requests' = requests (+)
                  One([route |-> "POST /api/users",
                       userData |-> userParsed(body),
                       existingUser |->
                           getUserByUsername(userParsed(body).username)])
            /\ UNCHANGED response
    /\ UNCHANGED <<users, userIdCounter, journalEntries, journalIdCounter,
                   now, posted, component, startup>>

\* POST /api/users, from the await of getUserByUsername to the end: 409
\* when the lookup had found a user, createUser and 201 otherwise.
userPost_AfterLookup(h) ==
    /\ BagIn(h, requests)
    /\ h.route = "POST /api/users"
    /\ requests' = requests (-) One(h)
    /\ IF h.existingUser # Null
       THEN /\ response' = Answer(409, Message("Username already exists"))
            /\ UNCHANGED <<users, userIdCounter>>
       ELSE /\ userIdCounter <= MaxUsers
            /\ createUser(h.userData)
            /\ response' = Answer(201, NewUser(h.userData, userIdCounter))
    /\ UNCHANGED <<journalEntries, journalIdCounter, now, posted, component,
                   startup>>

\* The bodies PATCH /api/journal/:id is requested with where requests
\* overlap.
OverlapPatchBodies ==
    { [reframe |-> JsonString("X")],
      [challenge |-> JsonString("Y")],
      [challenge |-> JsonString("Z")],
      [challenge |-> JsonNumber(5)] }

\* The :id parameters of these requests.
OverlapIdParams == {"1", "abc"}

\* PATCH /api/journal/:id, from the request to its await: the id and the
\* body are checked and updateJournalEntry is called, which reads the
\* entry, merges the update into it and stores it before it returns its
\* promise; the handler is suspended with the entry returned (Null for
\* undefined).
journalPatch_Call(param, body) ==
    /\ IF isNaN(param)
       THEN /\ response' = Answer(400, Message("Invalid entry ID"))
            /\ UNCHANGED <<journalEntries, requests>>
       ELSE IF updateIssues(body) # {}
       THEN /\ response' = ZodAnswer(updateIssues(body))
            /\ UNCHANGED <<journalEntries, requests>>
       ELSE /\ BagCardinality(requests) < MaxRequests
            /\ IF Number(param) \notin DOMAIN journalEntries
               THEN UNCHANGED journalEntries
               ELSE updateJournalEntry(Number(param), updateParsed(body))
            /\ requests' = requests (+)
                  One([route |-> "PATCH /api/journal/:id",
                       id |-> Number(param),
                       updateData |-> updateParsed(body),
                       updatedEntry |->
                           IF Number(param) \notin DOMAIN journalEntries
                           THEN Null
                           ELSE Merged(journalEntries[Number(param)],
                                       updateParsed(body))])
            /\ UNCHANGED response
    /\ UNCHANGED <<journalIdCounter, now, posted, component, users,
                   userIdCounter, startup>>

\* PATCH /api/journal/:id, from the await of updateJournalEntry to the
\* end: 404 when no entry was returned, the entry otherwise.
journalPatch_Respond(h) ==
    /\ BagIn(h, requests)
    /\ h.route = "PATCH /api/journal/:id"
    /\ requests' = requests (-) One(h)
    /\ response' =
          IF h.updatedEntry = Null
          THEN Answer(404, Message("Journal entry not found"))
          ELSE Answer(200, h.updatedEntry)
    /\ UNCHANGED <<journalEntries, journalIdCounter, now, posted, component,
                   users, userIdCounter, startup>>

\* The bodies POST /api/journal is requested with where requests overlap:
\* an entry of user 1 and an entry of user 2.
OverlapPostBodies ==
    { ValidEntry, MapSet(ValidEntry, "userId", JsonNumber(2)) }

----------------------------------------------------------------------------
(* The list of a user's entries *)

\* Array.from(this.journalEntries.values()) for the entries under `ids`:
\* a Map yields its values in the order in which their keys were
\* inserted, which is the order of the ids, and Map.set on a key that
\* exists leaves the key in its place.
RECURSIVE ValuesOf(_)
ValuesOf(ids) ==
    IF ids = {} THEN <<>>
    ELSE LET first == CHOOSE i \in ids : \A j \in ids : i <= j
         IN  <<journalEntries[first]>> \o ValuesOf(ids \ {first})

\* The comparator ordering the oldest entry first.
compare_OldestFirst(a, b) == a.createdAt - b.createdAt

\* (a, b) => new Date(b.createdAt).getTime() - new Date(a.createdAt).getTime()
compare(a, b) == b.createdAt - a.createdAt

\* Array.prototype.sort(compare), a stable sort: an element goes behind
\* the elements that compare does not place after it, in the order in
\* which the elements were met.
RECURSIVE Sort(_)
Sort(array) ==
    IF array = <<>> THEN <<>>
    ELSE LET sorted == Sort(SubSeq(array, 1, Len(array) - 1))
             entry == array[Len(array)]
             ahead == Cardinality({ i \in 1..Len(sorted) :
                                      compare(sorted[i], entry) <= 0 })
         IN  SubSeq(sorted, 1, ahead) \o <<entry>>
                 \o SubSeq(sorted, ahead + 1, Len(sorted))

\* MemStorage.getJournalEntries(userId)
getJournalEntries(userId) ==
    LET OfUser(entry) == entry.userId = userId
    IN  Sort(SelectSeq(ValuesOf(DOMAIN journalEntries), OfUser))

\* The userId parameters of the query string.
UserIdQueries == {"1", "02", "abc"}

\* GET /api/journal?userId=; the body of the 200 is the array, held
\* here under `entries`.
journalList(query) ==
    /\ response' =
          IF isNaN(query) THEN Answer(400, Message("Invalid user ID"))
          ELSE Answer(200, [entries |-> getJournalEntries(Number(query))])
    /\ UNCHANGED <<journalEntries, journalIdCounter, now, posted, component,
                   accounts, startup>>

\* The clock of the server advances.
Tick ==
    /\ now < MaxTime
    /\ now' = now + 1
    /\ UNCHANGED <<journalEntries, journalIdCounter, posted, response,
                   component, accounts, startup>>

\* The bodies POST /api/journal is requested with where lists are read:
\* entries of two users, with and without the optional fields, and one
\* that brings an id and a createdAt of its own.
ListBodies ==
    { ValidEntry,
      MapSet(ValidEntry, "userId", JsonNumber(2)),
      MapSet(MapSet(ValidEntry, "challenge", JsonString("Is that certain?")),
             "reframe", JsonString("I can prepare")),
      MapSet(MapSet(ValidEntry, "id", JsonNumber(1)),
             "createdAt", JsonNumber(0)) }

\* POST /api/journal, the store taking MaxListed entries.
journalPostListed(body) ==
    /\ handleJournalPostWithin(MaxListed, body)
    /\ UNCHANGED <<now, posted, component, accounts, startup>>

\* The updates PATCH /api/journal/:id is requested with where lists are
\* read.
ListPatchBodies == { [challenge |-> JsonString("Y")] }

\* The :id parameters of the requests made where lists are read.
ListIdParams == {"1", "02"}

----------------------------------------------------------------------------
(* The classifier: generateCBTResponse and POST /api/cbt/analyze *)

\* The bodies POST /api/cbt/analyze is requested with.
AnalyzeBodies ==
    { [situation |-> JsonString("My boss called me"),
       emotion |-> JsonString("anxious"),
       thought |-> JsonString("I will fail")],
      [situation |-> JsonString("My boss called me"),
       emotion |-> JsonNumber(7)] }

\* z.object({situation: z.string(), emotion: z.string(),
\*           thought: z.string()}).parse(body)
analyzeIssues(body) ==
    { k \in {"situation", "emotion", "thought"} :
        IF k \in DOMAIN body THEN body[k].kind # "string" ELSE TRUE }

\* The message contents the model may reply with: a text that is not
\* JSON, or a JSON object, which need not have the four fields asked for.
Contents ==
    { [parses |-> FALSE, text |-> "I am sorry to hear that."] }
    \cup { [parses |-> TRUE, value |-> d] : d \in Diagnoses }
    \cup { [parses |-> TRUE,
            value |-> [thoughtPattern |-> "Catastrophizing",
                       challenge |-> "What is the evidence?"]] }

\* What openai.chat.completions.create may do: reject, the service being
\* unreachable or timing out, or resolve with a message content.
Completions ==
    { [rejects |-> TRUE, cause |-> c] :
        c \in {"unreachable", "timeout"} }
    \cup { [rejects |-> FALSE, content |-> c] : c \in Contents }

\* generateCBTResponse retrying a rejected call once before it gives up.
generateCBTResponse_Retry(completion) ==
    IF completion.rejects
    THEN [threw |-> TRUE, message |-> "Failed to generate CBT analysis",
          calls |-> 2]
    ELSE IF ~completion.content.parses
    THEN [threw |-> TRUE, message |-> "Failed to generate CBT analysis",
          calls |-> 1]
    ELSE [threw |-> FALSE, value |-> completion.content.value, calls |-> 1]

\* generateCBTResponse: one call of openai.chat.completions.create; the
\* content is JSON.parse'd and returned as it is; whatever is thrown in
\* the try block is replaced by Error("Failed to generate CBT analysis").
\* `calls` counts the calls of create.
generateCBTResponse(completion) ==
    IF completion.rejects \/ ~completion.content.parses
    THEN [threw |-> TRUE, message |-> "Failed to generate CBT analysis",
          calls |-> 1]
    ELSE [threw |-> FALSE, value |-> completion.content.value, calls |-> 1]

\* POST /api/cbt/analyze
cbtAnalyze(body, completion) ==
    /\ response' =
          IF analyzeIssues(body) # {}
          THEN ZodAnswer(analyzeIssues(body))
          ELSE IF generateCBTResponse(completion).threw
          THEN [Answer(500, Message("Failed to generate AI response"))
                   EXCEPT !.calls = generateCBTResponse(completion).calls]
          ELSE [Answer(200, generateCBTResponse(completion).value)
                   EXCEPT !.calls = generateCBTResponse(completion).calls]
    /\ UNCHANGED <<journalEntries, journalIdCounter, now, posted, component,
                   accounts, startup>>

----------------------------------------------------------------------------
(* Specifications *)

AfterTrigger == \E h \in BagToSet(handlers) : handleNextStep_AfterTrigger(h)

AnalysisOk ==
    \E h \in BagToSet(handlers) : \E d \in Diagnoses :
        handleNextStep_AnalysisOk(h, d)

AnalysisFailed == \E h \in BagToSet(handlers) : handleNextStep_AnalysisFailed(h)

SubmissionOk == \E m \in BagToSet(mutations) : MutationSuccess(m)

SubmissionFailed == \E m \in BagToSet(mutations) : MutationError(m)

\* A step of the component during which the server handles no request.
Alone(A) == A /\ UNCHANGED server

\* The events of the component other than a click on Next.
Others ==
    \/ Alone(OpenJournal)
    \/ Alone(DialogDismiss)
    \/ Alone(FieldChange)
    \/ Alone(handlePreviousStep)
    \/ Alone(FormSubmit)
    \/ Alone(AnalysisFailed)
    \/ Alone(AnalysisOk)
    \/ Alone(SubmissionOk)
    \/ Alone(SubmissionFailed)

Next == Alone(handleNextStep_Click) \/ Alone(AfterTrigger) \/ Others

\* The component by itself, its server answering as it may.  Every await
\* of handleNextStep is a point at which any other event may be handled, a
\* further click on Next included.
Spec == Init /\ [][Next]_vars

NextSync == Alone(handleNextStep_Sync) \/ Others

\* The events as a browser schedules them: a run of handleNextStep is
\* suspended only while its classifier call is outstanding.
SpecSync == Init /\ [][NextSync]_vars

\* As SpecSync, every POST /api/journal being answered in the end by the
\* application's own server.  The classifier is an external service and
\* nothing in the component bounds the wait for it, so nothing is assumed
\* of its replies; nor is the user obliged to act.
FairSpec ==
    SpecSync /\ WF_vars(Alone(SubmissionOk) \/ Alone(SubmissionFailed))

----------------------------------------------------------------------------
(* The component and the server together: sessions of a user who enters   *)
(* texts that are long enough and leaves the suggested challenge and       *)
(* reframe as they are                                                     *)

\* user.id of the CBTJournal props
UserId == 1

\* createJournalMutation.mutationFn: the body of the request,
\* { ...values, userId: user.id }, as JSON.
RequestBody(values) ==
    [k \in Fields \cup {"userId"} |->
        IF k = "userId" THEN JsonNumber(UserId) ELSE JsonString(values[k])]

\* A step of the component, with the request that mutationFn sends when
\* the step calls mutate(values); both callers pass the values of the
\* form as they are at the call.
Sending(A) ==
    /\ A
    /\ posted' =
          IF BagCardinality(mutations') > BagCardinality(mutations)
          THEN posted (+) One(RequestBody(form))
          ELSE posted
    /\ UNCHANGED <<journalEntries, journalIdCounter, now, response,
                   accounts, startup>>

\* The server handles a request of the component with 201 and the answer
\* settles a call of the component.  The server takes the requests in any
\* order.
JournalCreated ==
    \E body \in BagToSet(posted) : \E m \in BagToSet(mutations) :
        /\ handleJournalPost(body)
        /\ response'.status = 201
        /\ posted' = posted (-) One(body)
        /\ MutationSuccess(m)
        /\ UNCHANGED <<now, accounts, startup>>

\* A request of the component fails on its way to the server: apiRequest
\* rejects and nothing is stored.
JournalUnreached ==
    \E body \in BagToSet(posted) : \E m \in BagToSet(mutations) :
        /\ posted' = posted (-) One(body)
        /\ MutationError(m)
        /\ UNCHANGED <<journalEntries, journalIdCounter, now, response,
                       accounts, startup>>

\* The user enters a text that is long enough into the field of one of
\* the steps 0 to 2.
FieldChange_BeforeChallenge ==
    /\ currentStep < 3
    /\ FieldChange
    /\ SchemaErrors(form') \cap currentStepFields(currentStep) = {}

NextJournal ==
    \/ Sending(handleNextStep_Sync)
    \/ Sending(FormSubmit)
    \/ Alone(OpenJournal)
    \/ Alone(DialogDismiss)
    \/ Alone(FieldChange_BeforeChallenge)
    \/ Alone(handlePreviousStep)
    \/ Alone(AnalysisFailed)
    \/ Alone(AnalysisOk)
    \/ JournalCreated
    \/ JournalUnreached

SpecJournal == Init /\ [][NextJournal]_vars

\* The server by itself: the journal routes and the classifier route,
\* requested by any client in any order.
NextStore ==
    \/ \E body \in PostBodies : journalPost(body)
    \/ \E param \in IdParams : journalGetById(param)
    \/ \E param \in IdParams : \E body \in PatchBodies :
          journalPatch(param, body)
    \/ \E body \in AnalyzeBodies : \E completion \in Completions :
          cbtAnalyze(body, completion)

SpecStore == Init /\ [][NextStore]_vars

\* The journal store as time passes: entries are created, updated, read
\* one by one and listed by user, in any order.
NextList ==
    \/ \E body \in ListBodies : journalPostListed(body)
    \/ \E param \in ListIdParams : journalGetById(param)
    \/ \E param \in ListIdParams : \E body \in ListPatchBodies :
          journalPatch(param, body)
    \/ \E query \in UserIdQueries : journalList(query)
    \/ Tick

SpecList == Init /\ [][NextList]_vars

\* The modules of the server are evaluated: routes.ts imports
\* generateCBTResponse from ./lib/openai, so lib/openai is evaluated first,
\* and its top level throws when OPENAI_API_KEY is not set.  The error
\* fails the evaluation of routes.ts with it, and registerRoutes is never
\* there to be called.
LoadModules ==
    /\ process = "loading"
    /\ process' = IF OPENAI_API_KEY THEN "loaded" ELSE "failed"
    /\ UNCHANGED <<OPENAI_API_KEY, routes, journalEntries, journalIdCounter,
                   now, posted, response, accounts, component>>

\* registerRoutes(app): the routes are registered and the server listens.
registerRoutes ==
    /\ process = "loaded"
    /\ routes' = Routes
    /\ process' = "listening"
    /\ UNCHANGED <<OPENAI_API_KEY, journalEntries, journalIdCounter, now,
                   posted, response, accounts, component>>

\* A request to `route` is handled when the route is registered.
Served(route, A) == route \in routes /\ A

\* The server from the start of its process on.
NextProcess ==
    \/ LoadModules
    \/ registerRoutes
    \/ \E body \in PostBodies : Served("POST /api/journal", journalPost(body))
    \/ \E param \in IdParams :
          Served("GET /api/journal/:id", journalGetById(param))
    \/ \E query \in UserIdQueries :
          Served("GET /api/journal", journalList(query))
    \/ \E param \in IdParams : \E body \in PatchBodies :
          Served("PATCH /api/journal/:id", journalPatch(param, body))
    \/ \E body \in AnalyzeBodies : \E completion \in Completions :
          Served("POST /api/cbt/analyze", cbtAnalyze(body, completion))

SpecProcess == InitProcess /\ [][NextProcess]_vars

\* The users and the journal entries that name them: users are created
\* by requests that may overlap, a handler that is suspended at an await
\* going on after any number of steps of other handlers.
NextAccounts ==
    \/ \E body \in UserBodies : userPost_Start(body)
    \/ \E h \in BagToSet(requests) : userPost_AfterLookup(h)
    \/ \E body \in OverlapPostBodies : journalPost(body)

SpecAccounts == Init /\ [][NextAccounts]_vars

\* Updates of an entry by requests that may overlap.
NextPatches ==
    \/ journalPost(ValidEntry)
    \/ \E param \in OverlapIdParams : \E body \in OverlapPatchBodies :
          journalPatch_Call(param, body)
    \/ \E h \in BagToSet(requests) : journalPatch_Respond(h)

SpecPatches == Init /\ [][NextPatches]_vars

----------------------------------------------------------------------------
(* The claims *)

\* The step settles the classifier call of run h.
Settles(h) ==
    /\ h.pc = "analyze"
    /\ BagIn(h, handlers)
    /\ handlers' = handlers (-) One(h)

\* C1: when a classifier call that was outstanding at the dismissal of the
\* dialog settles, it leaves currentStep, the challenge and reframe fields
\* and aiAnalysis as they are.
C1_LateClassificationIgnored ==
    [][\A h \in BagToSet(handlers) :
          (h.abandoned /\ Settles(h)) =>
              /\ currentStep' = currentStep
              /\ form'.challenge = form.challenge
              /\ form'.reframe = form.reframe
              /\ aiAnalysis' = aiAnalysis]_vars

\* C2: when a submission that was pending at the dismissal of the dialog
\* settles, onSuccess or onError leaves the fields, currentStep and the
\* open/closed state of the session as they are.
C2_LateSubmissionIgnored ==
    [][\A m \in BagToSet(mutations) :
          (m.abandoned /\ (MutationSuccess(m) \/ MutationError(m))) =>
              UNCHANGED <<form, currentStep, isJournalOpen>>]_vars

\* C3: at most one classification call and at most one submission call is
\* outstanding in every reachable state.
C3_AtMostOneCallEach ==
    /\ OutstandingClassifications <= 1
    /\ OutstandingSubmissions <= 1

\* C4: every failing classifier call of the session moves the session to
\* CHALLENGE_REFRAME with the challenge and reframe fields empty.
C4_FailureLeavesFieldsEmpty ==
    [][\A h \in BagToSet(handlers) :
          (~h.abandoned /\ handleNextStep_AnalysisFailed(h)) =>
              /\ currentStep' = 3
              /\ form'.challenge = ""
              /\ form'.reframe = ""]_vars

\* C5: within one session the classifier is called at most once and the
\* diagnosis is set at most once.
C5_ClassifiedOncePerSession ==
    [][/\ (OutstandingClassifications' > OutstandingClassifications)
              => ~classified
       /\ \A h \in BagToSet(handlers) : \A d \in Diagnoses :
              (~h.abandoned /\ handleNextStep_AnalysisOk(h, d))
                  => aiAnalysis = Null]_vars

\* C6: Back moves the session from step k > 0 to step k - 1, never below
\* step 0, leaves the five fields and the diagnosis as they are and starts
\* no classifier call and no submission.
C6_BackOnlyStepsBack ==
    [][handlePreviousStep =>
          /\ currentStep > 0
          /\ currentStep' = currentStep - 1
          /\ currentStep' >= 0
          /\ form' = form
          /\ aiAnalysis' = aiAnalysis
          /\ handlers' = handlers
          /\ mutations' = mutations]_vars

\* C6 witness: the user's own challenge text, which can only be typed at
\* step 3, is in the form while step 2 is shown: Back has acted.
C6_Witness ==
    /\ isJournalOpen
    /\ currentStep = 2
    /\ form.challenge = "Is that certain?"
    /\ aiAnalysis # Null

\* C7: Next at step 0, 1 or 2 with a situation or thought of fewer than 5
\* characters, or an emotion of fewer than 2, leaves currentStep as it is,
\* puts the field in error and starts no classifier call.
C7_InvalidFieldBlocksNext ==
    [][(/\ handleNextStep_Sync
        /\ \/ currentStep = 0 /\ Len(form.situation) < 5
           \/ currentStep = 1 /\ Len(form.emotion) < 2
           \/ currentStep = 2 /\ Len(form.thought) < 5) =>
          /\ currentStep' = currentStep
          /\ currentStepFields(currentStep) \subseteq formErrors'
          /\ OutstandingClassifications' = OutstandingClassifications
          /\ isAnalyzing' = isAnalyzing]_vars

\* C7 witness: at step 2, with a valid situation and emotion, the thought
\* is too short and is the only field in error: Next was refused there.
C7_Witness ==
    /\ isJournalOpen
    /\ currentStep = 2
    /\ form.thought = "fail"
    /\ formErrors = {"thought"}
    /\ handlers = EmptyBag

\* C8: whenever the session is at CHALLENGE_REFRAME no classifier call is
\* outstanding, and the session enters CHALLENGE_REFRAME only by the
\* settling of a classifier call of its own.
C8_ClassifiedBeforeChallenge ==
    [][currentStep' = 3 =>
          /\ OutstandingClassifications' = 0
          /\ currentStep < 3 =>
                \E h \in BagToSet(handlers) : ~h.abandoned /\ Settles(h)]_vars

\* C9: a session that is analyzing leaves the analyzing sub-state again,
\* unless it is dismissed first, whether or not the classifier answers.
C9_AnalyzingEnds ==
    (isJournalOpen /\ isAnalyzing) ~> (~isAnalyzing \/ ~isJournalOpen)

\* C10: a submission is started only while currentStep is CHALLENGE_REFRAME.
C10_SubmitOnlyFromChallenge ==
    [][(OutstandingSubmissions' > OutstandingSubmissions)
          => currentStep = 3]_vars

\* C11: the success of a submission leaves the session in its initial
\* state: the five fields empty, currentStep 0, no diagnosis, the dialog
\* closed and no call outstanding.
C11_SuccessResetsSession ==
    [][SubmissionOk =>
          /\ form' = defaultValues
          /\ currentStep' = 0
          /\ aiAnalysis' = Null
          /\ ~isJournalOpen'
          /\ OutstandingClassifications' = 0
          /\ OutstandingSubmissions' = 0]_vars

\* C12: when a submission of a session that has its diagnosis fails, the
\* session is at CHALLENGE_REFRAME, onError leaves the five fields and the
\* diagnosis as they are, the failure is reported and Next is enabled for
\* the retry.
C12_FailureKeepsSession ==
    [][\A m \in BagToSet(mutations) :
          (~m.abandoned /\ aiAnalysis # Null /\ MutationError(m)) =>
              /\ currentStep' = 3
              /\ form' = form
              /\ aiAnalysis' = aiAnalysis
              /\ toast' = "Failed to save journal entry"
              /\ NextEnabled']_vars

\* C13: in the sessions of SpecJournal, a record sent once the classifier
\* has succeeded carries the challenge and reframe of the diagnosis and the
\* situation, emotion and thought of the form, and the entry the server
\* stores for a request has the five fields of the request's body.
C13_StoredAsSuggested ==
    [][/\ \A body \in BagToSet(posted') :
             CopiesIn(body, posted') > CopiesIn(body, posted) =>
                 /\ \A k \in {"situation", "emotion", "thought"} :
                       body[k] = JsonString(form[k])
                 /\ aiAnalysis # Null =>
                       /\ body.challenge = JsonString(aiAnalysis.challenge)
                       /\ body.reframe = JsonString(aiAnalysis.reframe)
       /\ \A id \in DOMAIN journalEntries' \ DOMAIN journalEntries :
             \E body \in BagToSet(posted) :
                 /\ CopiesIn(body, posted') < CopiesIn(body, posted)
                 /\ Fields \subseteq DOMAIN journalEntries'[id]
                 /\ \A k \in Fields :
                       JsonString(journalEntries'[id][k]) = body[k]]_vars

\* C13 witness: an entry is stored with the texts the user entered and the
\* challenge and reframe of the diagnosis.
C13_Witness ==
    \E id \in DOMAIN journalEntries : \E d \in Diagnoses :
        /\ journalEntries[id].situation = "My boss called me"
        /\ journalEntries[id].emotion = "anxious"
        /\ journalEntries[id].thought = "I will fail"
        /\ journalEntries[id].challenge = d.challenge
        /\ journalEntries[id].reframe = d.reframe

\* C14: a challenge or reframe text that the user has entered is not
\* replaced by the result of a classifier call.
C14_UserTextKept ==
    [][\A h \in BagToSet(handlers) : \A d \in Diagnoses :
          handleNextStep_AnalysisOk(h, d) =>
              /\ form.challenge \in (ChallengeTexts \ {""})
                    => form'.challenge = form.challenge
              /\ form.reframe \in (ReframeTexts \ {""})
                    => form'.reframe = form.reframe]_vars

\* The four fields of a diagnosis.
DiagnosisKeys ==
    {"thoughtPattern", "patternExplanation", "challenge", "reframe"}

\* C15: every value POST /api/cbt/analyze answers with 200 has the four
\* fields of a diagnosis; a reply of the model that parses as JSON and
\* lacks one of them is answered as a failure.
C15_DiagnosisComplete ==
    [][\A body \in AnalyzeBodies : \A completion \in Completions :
          (response'.status = 200 /\ cbtAnalyze(body, completion)) =>
              DiagnosisKeys \subseteq DOMAIN response'.body]_vars

\* The classifier call of generateCBTResponse fails.
ClassifierFails(completion) ==
    completion.rejects \/ ~completion.content.parses

\* C16: whatever makes the classifier call fail, generateCBTResponse throws
\* the same error after one call of the service, and POST /api/cbt/analyze
\* answers with the same 500 body.
C16_OneClassifierError ==
    [][\A body \in AnalyzeBodies : \A completion \in Completions :
          (/\ analyzeIssues(body) = {}
           /\ ClassifierFails(completion)
           /\ cbtAnalyze(body, completion)) =>
              /\ generateCBTResponse(completion) =
                    [threw |-> TRUE,
                     message |-> "Failed to generate CBT analysis",
                     calls |-> 1]
              /\ response' =
                    [status |-> 500,
                     body |-> [message |-> "Failed to generate AI response"],
                     calls |-> 1]]_vars

\* C16 witness: a request to the classifier route was answered with the
\* 500 of a classifier failure.
C16_Witness ==
    /\ response.status = 500
    /\ response.body = Message("Failed to generate AI response")
    /\ response.calls = 1

\* C17: every stored journal entry has a situation and a thought of at
\* least 5 characters and an emotion of at least 2.
C17_StoredEntriesValid ==
    \A id \in DOMAIN journalEntries :
        /\ Len(journalEntries[id].situation) >= 5
        /\ Len(journalEntries[id].emotion) >= 2
        /\ Len(journalEntries[id].thought) >= 5

\* C18: no step removes an entry, every entry is stored under its own id,
\* and the entry a POST /api/journal creates has an id that no entry had
\* and that is greater than every id assigned before.
C18_IdsFreshAndKept ==
    [][/\ DOMAIN journalEntries \subseteq DOMAIN journalEntries'
       /\ \A id \in DOMAIN journalEntries' : journalEntries'[id].id = id
       /\ \A body \in PostBodies :
             (response'.status = 201 /\ journalPost(body)) =>
                 /\ response'.body.id \in DOMAIN journalEntries'
                 /\ response'.body.id \notin DOMAIN journalEntries
                 /\ \A old \in DOMAIN journalEntries :
                       response'.body.id > old]_vars

\* C18 witness: two entries are stored and one of them has been updated.
C18_Witness ==
    /\ DOMAIN journalEntries = {1, 2}
    /\ "reframe" \in DOMAIN journalEntries[1]
    /\ journalEntries[1].reframe = "X"

\* C19: PATCH /api/journal/:id changes, in the entry it names, at most the
\* keys among challenge and reframe that its body contains; every other
\* key of every entry keeps its value, and no key appears or disappears.
C19_PatchFrame ==
    [][\A param \in IdParams : \A body \in PatchBodies :
          journalPatch(param, body) =>
              /\ DOMAIN journalEntries' = DOMAIN journalEntries
              /\ \A id \in DOMAIN journalEntries \ {Number(param)} :
                    journalEntries'[id] = journalEntries[id]
              /\ \A id \in DOMAIN journalEntries :
                 \A k \in (DOMAIN journalEntries[id]
                             \cup DOMAIN journalEntries'[id])
                          \ (UpdateKeys \cap DOMAIN body) :
                     /\ k \in DOMAIN journalEntries[id]
                     /\ k \in DOMAIN journalEntries'[id]
                     /\ journalEntries'[id][k] = journalEntries[id][k]]_vars

\* C19 witness: an entry created with both optional fields has had its
\* challenge replaced by a PATCH and has kept its reframe.
C19_Witness ==
    \E id \in DOMAIN journalEntries :
        /\ DOMAIN journalEntries[id] = InsertKeys \cup {"id", "createdAt"}
        /\ journalEntries[id].challenge = "Y"
        /\ journalEntries[id].reframe = "I can prepare"
        /\ journalEntries[id].situation = "My boss called me"

C28_StepInRange ==
    [][/\ currentStep' \in 0..3
       /\ currentStep' <= currentStep + 1]_vars

\* C29: every record the session hands to createJournalMutation has a
\* situation and a thought of at least 5 characters and an emotion of at
\* least 2.
C29_SubmittedRecordValid ==
    [][(OutstandingSubmissions' > OutstandingSubmissions) =>
          SchemaErrors(form) \cap {"situation", "emotion", "thought"} = {}]_vars

\* C21: a POST /api/journal or PATCH /api/journal/:id whose body violates
\* its schema is answered 400 and leaves the entries and the id counter as
\* they are; no rejected request consumes an id, so the id of every entry
\* created is the number of entries stored before it plus one.
C21_RejectedChangesNothing ==
    [][/\ \A body \in PostBodies :
             (insertIssues(body) # {} /\ journalPost(body)) =>
                 /\ response'.status = 400
                 /\ UNCHANGED <<journalEntries, journalIdCounter>>
       /\ \A body \in PatchBodies : \A param \in IdParams :
             (updateIssues(body) # {} /\ journalPatch(param, body)) =>
                 /\ response'.status = 400
                 /\ UNCHANGED <<journalEntries, journalIdCounter>>
       /\ \A id \in DOMAIN journalEntries' \ DOMAIN journalEntries :
             id = Cardinality(DOMAIN journalEntries) + 1]_vars

\* C21 witness: with one entry stored and the next id still 2, the last
\* request was turned away with the issues of its body.
C21_Witness ==
    /\ DOMAIN journalEntries = {1}
    /\ journalIdCounter = 2
    /\ response.status = 400
    /\ "issues" \in DOMAIN response.body

\* C22: GET /api/journal?userId=U answers 200 with exactly the stored
\* entries whose userId is U, each once, the entry created later before
\* the entry created earlier, whatever entries of other users and
\* whatever updates came in between.
C22_ListedNewestFirst ==
    [][\A query \in UserIdQueries :
          (/\ ~isNaN(query)
           /\ "entries" \in DOMAIN response'.body
           /\ journalList(query)) =>
              LET listed == response'.body.entries
              IN  /\ response'.status = 200
                  /\ \A i \in 1..Len(listed) :
                        /\ listed[i].userId = Number(query)
                        /\ listed[i].id \in DOMAIN journalEntries
                        /\ listed[i] = journalEntries[listed[i].id]
                  /\ \A id \in DOMAIN journalEntries :
                        journalEntries[id].userId = Number(query) =>
                            Cardinality({ i \in 1..Len(listed) :
                                            listed[i].id = id }) = 1
                  /\ \A i, j \in 1..Len(listed) :
                        i < j => listed[i].createdAt >= listed[j].createdAt]_vars

\* C22 witness: user 1 is answered the entries 3 and 1, in this order and
\* created at different times, entry 2 being of user 2 and entry 1 having
\* been updated.
C22_Witness ==
    /\ response.status = 200
    /\ "entries" \in DOMAIN response.body
    /\ Len(response.body.entries) = 2
    /\ response.body.entries[1].id = 3
    /\ response.body.entries[2].id = 1
    /\ response.body.entries[1].createdAt > response.body.entries[2].createdAt
    /\ journalEntries[2].userId = 2
    /\ "challenge" \in DOMAIN journalEntries[1]
    /\ journalEntries[1].challenge = "Y"

\* C23: GET /api/journal/:id and GET /api/journal?userId= leave the
\* entries and the id counter as they are, and the answer a further
\* GET /api/journal/:id gets in the state reached is the answer just given.
C23_ReadsChangeNothing ==
    [][/\ \A param \in ListIdParams :
             journalGetById(param) =>
                 /\ UNCHANGED <<journalEntries, journalIdCounter>>
                 /\ JournalEntryAnswer(param)' = response'
       /\ \A query \in UserIdQueries :
             journalList(query) =>
                 UNCHANGED <<journalEntries, journalIdCounter>>]_vars

\* C23 witness: entry 1, never updated, was read after the time of its
\* creation.
C23_Witness ==
    /\ 1 \in DOMAIN journalEntries
    /\ "challenge" \notin DOMAIN journalEntries[1]
    /\ response = Answer(200, journalEntries[1])
    /\ now > journalEntries[1].createdAt

\* C24: the record a successful POST /api/journal returns has the values
\* of the userId, situation, emotion, thought, challenge and reframe that
\* were submitted, a new id and the time of creation, and nothing else; it
\* is what GET /api/journal/:id answers for that id from then on, an entry
\* being changed by no request but a PATCH of its id.
C24_CreateThenRead ==
    [][/\ \A body \in ListBodies :
             (/\ response'.status = 201
              /\ insertIssues(body) = {}
              /\ journalPostListed(body)) =>
                 LET entry == response'.body
                 IN  /\ response'.status = 201
                     /\ DOMAIN entry =
                           (InsertKeys \cap DOMAIN body) \cup {"id", "createdAt"}
                     /\ \A k \in InsertKeys \cap DOMAIN body :
                           entry[k] = body[k].val
                     /\ entry.id \notin DOMAIN journalEntries
                     /\ entry.createdAt = now
                     /\ \A param \in ListIdParams :
                           Number(param) = entry.id =>
                               JournalEntryAnswer(param)' = Answer(200, entry)
       /\ \A id \in DOMAIN journalEntries :
             \/ journalEntries'[id] = journalEntries[id]
             \/ \E param \in ListIdParams : \E update \in ListPatchBodies :
                   Number(param) = id /\ journalPatch(param, update)]_vars

\* C24 witness: an entry created with a challenge and a reframe is read
\* back, as it was created, after the time of its creation.
C24_Witness ==
    \E id \in DOMAIN journalEntries :
        /\ response = Answer(200, journalEntries[id])
        /\ journalEntries[id] =
              [userId |-> 1, situation |-> "My boss called me",
               emotion |-> "anxious", thought |-> "I will fail",
               challenge |-> "Is that certain?", reframe |-> "I can prepare",
               id |-> id, createdAt |-> journalEntries[id].createdAt]
        /\ now > journalEntries[id].createdAt

\* C25: a POST /api/users that ends while a user with its username is
\* stored is answered 409 and creates no user; no step changes a stored
\* user, and no two stored users have the same username, also when the
\* handlers of two requests overlap.
C25_UsernamesUnique ==
    [][/\ \A h \in BagToSet(requests) :
             (/\ h.route = "POST /api/users"
              /\ \E id \in DOMAIN users :
                    users[id].username = h.userData.username
              /\ userPost_AfterLookup(h)) =>
                 /\ response'.status = 409
                 /\ users' = users
       /\ \A id \in DOMAIN users :
             id \in DOMAIN users' /\ users'[id] = users[id]
       /\ \A a, b \in DOMAIN users' :
             a # b => users'[a].username # users'[b].username]_vars

\* C27: the userId of every stored journal entry is the id of a stored
\* user.
C27_EntriesHaveUsers ==
    \A id \in DOMAIN journalEntries :
        journalEntries[id].userId \in DOMAIN users

\* C30: a PATCH /api/journal/:id of an entry that exists gives the keys of
\* its body their new values and leaves every other key of the entry with
\* the value it has when updateJournalEntry is called, the values written
\* by requests that are not yet answered included; a handler that goes on
\* after its await writes nothing.  So of two overlapping requests that set
\* different keys both values are kept, and of two that set the same key
\* the value of the later call.
C30_UpdatesNotLost ==
    [][/\ \A param \in OverlapIdParams : \A body \in OverlapPatchBodies :
             (/\ ~isNaN(param)
              /\ updateIssues(body) = {}
              /\ Number(param) \in DOMAIN journalEntries
              /\ journalPatch_Call(param, body)) =>
                 LET before == journalEntries[Number(param)]
                     after == journalEntries'[Number(param)]
                 IN  /\ \A k \in DOMAIN body \cap UpdateKeys :
                           k \in DOMAIN after /\ after[k] = body[k].val
                     /\ \A k \in DOMAIN before \ DOMAIN body :
                           k \in DOMAIN after /\ after[k] = before[k]
       /\ \A h \in BagToSet(requests) :
             journalPatch_Respond(h) => UNCHANGED journalEntries]_vars

\* C30 witness: two requests on entry 1 are both suspended after their
\* update, one having set the challenge and one the reframe, and the entry
\* has both values.
C30_Witness ==
    /\ 1 \in DOMAIN journalEntries
    /\ {"challenge", "reframe"} \subseteq DOMAIN journalEntries[1]
    /\ journalEntries[1].challenge = "Y"
    /\ journalEntries[1].reframe = "X"
    /\ \E h1, h2 \in BagToSet(requests) :
          /\ h1.id = 1 /\ h1.updateData = [challenge |-> "Y"]
          /\ h2.id = 1 /\ h2.updateData = [reframe |-> "X"]
          /\ h1.updatedEntry # Null
          /\ h2.updatedEntry # Null

\* C26: once the start of a process without OPENAI_API_KEY is over, the
\* four journal routes are registered and the classifier route is the only
\* capability that is lost.
C26_JournalSurvivesMissingKey ==
    (process \in {"listening", "failed"} /\ ~OPENAI_API_KEY) =>
        JournalRoutes \subseteq routes

====
